---- MODULE Spec2Model ----
(***************************************************************************)
(* Model of src/translate_with_google.py: the resumable, checkpointed,     *)
(* sentence-by-sentence translation pipeline.                              *)
(*                                                                         *)
(* A string is a sequence of one-character strings, so that strip, split,  *)
(* join, replace and the URL pattern are computed character by character.  *)
(* A table (DataFrame, CSV file) is a sequence of rows                     *)
(* [id, text, en, status]: ArticleID, ArticleText, ArticleTextEnglish,     *)
(* TranslationStatus.                                                      *)
(***************************************************************************)
EXTENDS Integers, Sequences, FiniteSets, TLC

\* ------------------------------------------------------------------------
\* Bounds of the model
\* ------------------------------------------------------------------------
MaxArticles == 2        \* rows of an input table
MaxRuns == 2            \* invocations of the program in one behaviour
MaxCheckpointEvery == 2 \* largest --checkpoint-every
MaxStartIdx == 1        \* largest --start-idx
MaxMaxRows == 1         \* largest --max-rows
MaxRetriesArg == 5      \* largest max_retries given to translate_text_with_retry
MaxRerunArticles == 3   \* rows of the input table that is run twice

\* ------------------------------------------------------------------------
\* Values that are not strings
\* ------------------------------------------------------------------------
\* pandas' missing value, as a cell of a table
NaN == <<"NaN">>
\* Python's None, as the .text of a reply of the remote capability
None == <<"None">>
\* A file is [kind, rows]: no file at the path, a file whose writing was cut
\* short, or a complete CSV table
NoFile == [kind |-> "none", rows |-> <<>>]
Partial == [kind |-> "partial", rows |-> <<>>]
TableFile(rows) == [kind |-> "table", rows |-> rows]

\* ------------------------------------------------------------------------
\* Characters
\* ------------------------------------------------------------------------
WS == {" ", "\t", "\n", "\r"}

LowerLetters ==
  <<"a","b","c","d","e","f","g","h","i","j","k","l","m",
    "n","o","p","q","r","s","t","u","v","w","x","y","z">>

UpperLetters ==
  <<"A","B","C","D","E","F","G","H","I","J","K","L","M",
    "N","O","P","Q","R","S","T","U","V","W","X","Y","Z">>

DigitChars == <<"0","1","2","3","4","5","6","7","8","9">>

Range(f) == {f[k] : k \in DOMAIN f}

lower(c) ==
  IF c \in Range(UpperLetters)
    THEN LowerLetters[CHOOSE k \in DOMAIN UpperLetters : UpperLetters[k] = c]
    ELSE c

upper(c) ==
  IF c \in Range(LowerLetters)
    THEN UpperLetters[CHOOSE k \in DOMAIN LowerLetters : LowerLetters[k] = c]
    ELSE c

\* str(): the text of a cell; a missing cell prints as "nan"
str(v) == IF v = NaN THEN <<"n","a","n">> ELSE v

\* pd.isna
isna(v) == v = NaN

\* str.strip()
RECURSIVE lstrip(_)
lstrip(s) == IF s # <<>> /\ Head(s) \in WS THEN lstrip(Tail(s)) ELSE s

RECURSIVE rstrip(_)
rstrip(s) ==
  IF s # <<>> /\ s[Len(s)] \in WS THEN rstrip(SubSeq(s, 1, Len(s) - 1)) ELSE s

strip(s) == rstrip(lstrip(s))

\* " ".join(out) of a list of strings
RECURSIVE join(_)
join(out) ==
  IF out = <<>> THEN <<>>
  ELSE IF Len(out) = 1 THEN out[1]
  ELSE out[1] \o <<" ">> \o join(Tail(out))

\* str.replace(pat, rep): every non-overlapping occurrence, left to right
StartsWith(s, p, w) ==
  /\ p + Len(w) - 1 <= Len(s)
  /\ \A k \in 1..Len(w) : s[p + k - 1] = w[k]

RECURSIVE replace(_, _, _)
replace(s, pat, rep) ==
  IF s = <<>> THEN <<>>
  ELSE IF StartsWith(s, 1, pat)
    THEN rep \o replace(SubSeq(s, Len(pat) + 1, Len(s)), pat, rep)
    ELSE <<Head(s)>> \o replace(Tail(s), pat, rep)

\* ------------------------------------------------------------------------
\* Sentence splitting
\* ------------------------------------------------------------------------
\* _SENT_SPLIT = (?<=[.!?])\s+ : a maximal run of whitespace right after
\* one of . ! ? ; SplitAt cuts s at every such run
SentenceEnd == {".", "!", "?"}

RECURSIVE SplitAt(_, _, _)
SplitAt(s, p, cur) ==
  IF p > Len(s) THEN <<cur>>
  ELSE IF s[p] \in WS /\ p > 1 /\ s[p - 1] \in SentenceEnd
    THEN LET q == CHOOSE e \in p..Len(s) :
                    /\ \A k \in p..e : s[k] \in WS
                    /\ (e = Len(s) \/ s[e + 1] \notin WS)
         IN <<cur>> \o SplitAt(s, q + 1, <<>>)
    ELSE SplitAt(s, p + 1, Append(cur, s[p]))

split_sentences(text) ==
  LET t == strip(text)
  IN IF t = <<>> THEN <<>>
     ELSE SelectSeq(SplitAt(t, 1, <<>>), LAMBDA part : strip(part) # <<>>)

\* ------------------------------------------------------------------------
\* URL preservation
\* ------------------------------------------------------------------------
Schemes ==
  { <<"h","t","t","p",":","/","/">>,
    <<"h","t","t","p","s",":","/","/">>,
    <<"f","t","p",":","/","/">> }

Www == <<"w","w","w",".">>

Tlds ==
  { <<"c","o","m">>, <<"o","r","g">>, <<"n","e","t">>, <<"e","d","u">>,
    <<"g","o","v">>, <<"r","u">>, <<"u","a">>, <<"b","y">>, <<"k","z">>,
    <<"i","n","f","o">>, <<"b","i","z">>, <<"i","o">>, <<"a","i">>,
    <<"a","u">>, <<"u","k">>, <<"d","e">>, <<"f","r">>, <<"i","t">>,
    <<"e","s">>, <<"c","z">>, <<"p","l">>, <<"s","e">>, <<"n","o">>,
    <<"d","k">>, <<"n","l">>, <<"b","e">>, <<"c","h">>, <<"j","p">>,
    <<"c","n">>, <<"k","r">>, <<"b","r">>, <<"i","n">> }

\* [A-Za-z0-9.-]
IsDomainChar(c) ==
  lower(c) \in Range(LowerLetters) \cup Range(DigitChars) \cup {".", "-"}

\* re.IGNORECASE comparison of the lower-case word w with s at p
StartsWithCI(s, p, w) ==
  /\ p + Len(w) - 1 <= Len(s)
  /\ \A k \in 1..Len(w) : lower(s[p + k - 1]) = w[k]

NonSpaceAt(s, p) == p <= Len(s) /\ s[p] \notin WS

\* _URL_RE matches at position p of s
UrlAt(s, p) ==
  \/ \E sch \in Schemes : StartsWithCI(s, p, sch) /\ NonSpaceAt(s, p + Len(sch))
  \/ StartsWithCI(s, p, Www) /\ NonSpaceAt(s, p + Len(Www))
  \/ \E j \in (p + 1)..Len(s) :
       /\ \A k \in p..(j - 1) : IsDomainChar(s[k])
       /\ s[j] = "."
       /\ \E tld \in Tlds : StartsWithCI(s, j + 1, tld)

\* every alternative of _URL_RE ends in a greedy \S+ or \S*: a match runs
\* to the end of the whitespace-delimited run it starts in
UrlEnd(s, p) ==
  CHOOSE e \in p..Len(s) :
    /\ \A k \in p..e : s[k] \notin WS
    /\ (e = Len(s) \/ s[e + 1] \in WS)

RECURSIVE DecStr(_)
DecStr(n) ==
  IF n < 10 THEN <<DigitChars[n + 1]>>
  ELSE DecStr(n \div 10) \o <<DigitChars[(n % 10) + 1]>>

\* f"URLTOKEN_{idx}_X"
Placeholder(idx) ==
  <<"U","R","L","T","O","K","E","N","_">> \o DecStr(idx) \o <<"_","X">>

\* _URL_RE.sub(_sub, sentence), scanning from p with idx matches so far
RECURSIVE UrlSub(_, _, _)
UrlSub(s, p, idx) ==
  IF p > Len(s) THEN [masked |-> <<>>, repls |-> <<>>]
  ELSE IF UrlAt(s, p)
    THEN LET e == UrlEnd(s, p)
             rest == UrlSub(s, e + 1, idx + 1)
         IN [masked |-> Placeholder(idx) \o rest.masked,
             repls |-> <<<<Placeholder(idx), SubSeq(s, p, e)>>>> \o rest.repls]
    ELSE LET rest == UrlSub(s, p + 1, idx)
         IN [masked |-> <<s[p]>> \o rest.masked, repls |-> rest.repls]

protect_urls(sentence) == UrlSub(sentence, 1, 0)

\* restore_urls on a string: the pairs are replaced in order
RECURSIVE restore_urls(_, _)
restore_urls(s, repls) ==
  IF repls = <<>> THEN s
  ELSE restore_urls(replace(s, repls[1][1], repls[1][2]), Tail(repls))

\* restore_urls(None, repls) raises AttributeError at out.replace when there
\* is a pair to replace, and returns None when there is none
restore_urls_raises(s, repls) == s = None /\ repls # <<>>


\* ------------------------------------------------------------------------
\* The remote translation capability
\* ------------------------------------------------------------------------
\* The capability is deterministic: what it does with a text is a function
\* of the text. A text holding the letter x makes the call raise, every
\* time; a text holding the letter n gets a reply whose .text is None; any
\* other text gets its letters in upper case, which leaves URLTOKEN_<n>_X
\* placeholders as they are. When flaky is TRUE any call may raise as well.
remote_raises(text) == "x" \in Range(text)

remote_text(text) ==
  IF "n" \in Range(text) THEN None
  ELSE [k \in DOMAIN text |-> upper(text[k])]

\* ------------------------------------------------------------------------
\* Tables
\* ------------------------------------------------------------------------
\* ArticleID values: the row positions, as load_input synthesizes them
Ids == {DecStr(k) : k \in 0..(MaxArticles - 1)}

TextBlank == <<" ">>
TextGood == <<"a", ".">>
TextBad == <<"n", ".", " ", "a", ".">>
TextSoft == <<"x", ".">>
Texts == {TextBlank, TextGood, TextBad, TextSoft}
\* two sentences, the first with a URL and refused by the capability
TextSoftUrl == <<"x", " ", "b", ".", "r", "u", ".", " ", "a", ".">>

\* TranslationStatus cells and progress-log outcomes are sequences of pieces
\* whose concatenation is the string: "" is <<>>, f"error: {e!s}" is
\* <<"error: ">> \o str(e)
StatusUnset == <<>>
StatusEmpty == <<"empty">>
StatusOk == <<"ok">>
StatusError(e) == <<"error: ">> \o e

\* str(e) of the exceptions that can reach main's except clause
\* AttributeError of None.replace in restore_urls
ExcAttribute == <<"'NoneType' object has no attribute 'replace'">>
\* TypeError of " ".join(out) when out[k] is None
ExcJoin(k) ==
  <<"sequence item ">> \o DecStr(k - 1)
    \o <<": expected str instance, NoneType found">>
\* OSError of open(log_path, "a")
ExcLog == <<"[Errno 13] Permission denied: '<output>.progress.log'">>

IdsOf(table) == [k \in DOMAIN table |-> table[k].id]

UniqueIds(table) ==
  \A j, k \in DOMAIN table : table[j].id = table[k].id => j = k

\* the orders in which an input CSV can list articles of the corpus
IdLists ==
  { l \in UNION { [1..n -> Ids] : n \in 0..MaxArticles } :
      \A j, k \in DOMAIN l : l[j] = l[k] => j = k }

\* an input CSV over the corpus c (ArticleID -> ArticleText): whether it has
\* the ArticleID and ArticleText columns, and its rows. A file without the
\* ArticleID column lists the articles whose ids are their row positions,
\* and its rows hold no id.
InputFiles(c) ==
  { [has_id |-> x[1],
     has_text |-> TRUE,
     rows |-> [k \in DOMAIN x[2] |->
                 [id |-> IF x[1] THEN x[2][k] ELSE NaN, text |-> c[x[2][k]]]]] :
      x \in { y \in BOOLEAN \X IdLists :
                y[1] \/ \A k \in DOMAIN y[2] : y[2][k] = DecStr(k - 1) } }

\* input CSVs without the ArticleText column
NoTextFiles ==
  { [has_id |-> b,
     has_text |-> FALSE,
     rows |-> [k \in 1..n |->
                 [id |-> IF b THEN DecStr(k - 1) ELSE NaN, text |-> NaN]]] :
      b \in BOOLEAN, n \in 0..1 }

\* lines 133-134: raise SystemExit("ERROR: ...")
load_input_exits(file) == ~file.has_text

\* load_input: without an ArticleID column the ids are the row positions
load_input(file) ==
  IF file.has_id THEN file.rows
  ELSE [k \in DOMAIN file.rows |->
          [id |-> DecStr(k - 1), text |-> file.rows[k].text]]

\* df.to_csv: a missing cell is written as the empty field
to_csv(df) ==
  [k \in DOMAIN df |->
     [id |-> df[k].id,
      text |-> IF isna(df[k].text) THEN <<>> ELSE df[k].text,
      en |-> IF isna(df[k].en) THEN <<>> ELSE df[k].en,
      status |-> IF isna(df[k].status) THEN <<>> ELSE df[k].status]]

\* input_df.copy() with the two output columns added
FreshOutput(input_df) ==
  [k \in DOMAIN input_df |->
     [id |-> input_df[k].id, text |-> input_df[k].text,
      en |-> <<>>, status |-> StatusUnset]]

\* the rows of the file kept as the file lists them
reindex_as_saved(file_df, input_df) == file_df

\* out_df.set_index("ArticleID").reindex(input_df["ArticleID"]).reset_index():
\* one row per input id, in input order; an id the file does not hold gets
\* a row of missing cells
reindex(file_df, input_df) ==
  [k \in DOMAIN input_df |->
     IF \E j \in DOMAIN file_df : file_df[j].id = input_df[k].id
       THEN file_df[CHOOSE j \in DOMAIN file_df : file_df[j].id = input_df[k].id]
       ELSE [id |-> input_df[k].id, text |-> NaN, en |-> NaN,
             status |-> NaN]]

\* every file that holds a table is merged
Readable_any_table(file) == file.kind = "table"

\* pd.read_csv(out_path) succeeds: the file is a table; reindex raises on
\* an index with duplicate labels
Readable(file) == file.kind = "table" /\ UniqueIds(file.rows)

load_or_init_output(input_df, file, ow) ==
  IF file.kind # "none" /\ Readable(file)
    THEN LET merged == reindex(file.rows, input_df)
         IN IF ow
              THEN [k \in DOMAIN merged |->
                      [merged[k] EXCEPT !.en = <<>>, !.status = StatusUnset]]
              ELSE merged
    ELSE FreshOutput(input_df)

\* a mask that marks no row as done
DoneMask_never(df, ow) == [k \in DOMAIN df |-> FALSE]

\* done_mask = out_df["ArticleTextEnglish"].astype(str).str.strip() != ""
DoneMask(df, ow) ==
  [k \in DOMAIN df |-> IF ow THEN FALSE ELSE strip(str(df[k].en)) # <<>>]

\* the test without the strip
IsBlankText_unstripped(src_text) == isna(src_text) \/ str(src_text) = <<>>

\* pd.isna(src_text) or not str(src_text).strip()
IsBlankText(src_text) == isna(src_text) \/ strip(str(src_text)) = <<>>

\* ------------------------------------------------------------------------
\* State
\* ------------------------------------------------------------------------
VARIABLES
  run,                  \* invocations of the program started so far
  pc,                   \* where the process is
  flaky,                \* any call of the remote capability may raise
  corpus,               \* the text of each article, by ArticleID
  out_file,             \* the file at --output
  tmp_file,             \* the file at --output + ".tmp"
  progress_log,         \* the lines of --output + ".progress.log"
  in_df,                \* main: in_df
  overwrite,            \* args.overwrite
  checkpoint_every,     \* args.checkpoint_every
  start,                \* main: start
  end_limit,            \* main: end_limit
  out_df,               \* main: out_df, the JobState
  done_mask,            \* main: done_mask
  i,                    \* main: the loop variable, as a row number from 1
  processed_since_ckpt, \* main: processed_since_ckpt
  any_changes,          \* main: any_changes
  sents,                \* translate_article_text: the sentences still to do
  out,                  \* translate_article_text: out
  text,                 \* translate_text_with_retry: text
  repls,                \* translate_sentence: repls
  attempt,              \* translate_text_with_retry: attempt
  max_retries,          \* translate_text_with_retry: max_retries
  translated,           \* what translate_text_with_retry returned
  err,                  \* the status of the exception being handled
  caller,               \* who called write_checkpoint_safely
  loaded,               \* history: the JobState as load_or_init_output built it
  touched,              \* history: rows whose outputs this run has written
  called,               \* history: rows this run called the capability for
  calls,                \* history: calls made by this translate_text_with_retry
  slept,                \* history: its waits so far, in milliseconds
  start_file,           \* history: the file at --output when the run started
  start_log,            \* history: the progress log when the run started
  rerun                 \* history: this run repeats a completed run's arguments

vars ==
  <<run, pc, flaky, corpus, out_file, tmp_file, progress_log, in_df, overwrite,
    checkpoint_every, start, end_limit, out_df, done_mask, i, processed_since_ckpt,
    any_changes, sents, out, text, repls, attempt, max_retries, translated,
    err, caller, loaded, touched, called, calls, slept, start_file,
    start_log, rerun>>

world == <<run, flaky, corpus, max_retries>>
files == <<out_file, tmp_file, progress_log>>
args == <<in_df, overwrite, checkpoint_every, start, end_limit>>
article == <<sents, out>>
retry == <<text, repls, attempt, translated, calls, slept>>
history == <<loaded, start_file, start_log, rerun>>

\* translate_text_with_retry's default max_retries
DefaultMaxRetries == 5
\* translate_text_with_retry's default base_sleep, 0.5 s, in milliseconds
BaseSleepMs == 500

Stopped == {"idle", "done", "interrupted", "killed", "crashed", "config_error"}

\* the interrupt handler leaving with the status of a clean exit
ExitStatus_interrupt_clean ==
  CASE pc = "done" -> 0
    [] pc = "crashed" -> 1
    [] pc = "config_error" -> 1
    [] pc = "interrupted" -> 0
    [] pc = "killed" -> 137
    [] OTHER -> -1

\* the exit status of the process: 0 when main returns, 1 for SystemExit
\* with a message and for an uncaught exception, 130 from the handler of
\* KeyboardInterrupt, 128 + 9 when killed; -1 while it runs
ExitStatus ==
  CASE pc = "done" -> 0
    [] pc = "crashed" -> 1
    [] pc = "config_error" -> 1
    [] pc = "interrupted" -> 130
    [] pc = "killed" -> 137
    [] OTHER -> -1

\* the variables of main and of translate_article_text, when no process runs
NoMain ==
  /\ in_df = <<>>
  /\ overwrite = FALSE
  /\ checkpoint_every = 1
  /\ start = 0
  /\ end_limit = 0
  /\ out_df = <<>>
  /\ done_mask = <<>>
  /\ i = 1
  /\ processed_since_ckpt = 0
  /\ any_changes = FALSE
  /\ sents = <<>>
  /\ out = <<>>
  /\ err = <<>>
  /\ caller = "none"
  /\ loaded = <<>>
  /\ touched = {}
  /\ called = {}
  /\ start_file = NoFile
  /\ start_log = <<>>
  /\ rerun = FALSE

\* the variables of translate_sentence and translate_text_with_retry, when
\* neither runs
NoSentence ==
  /\ text = <<>>
  /\ repls = <<>>
  /\ attempt = 0
  /\ translated = <<>>
  /\ calls = 0
  /\ slept = <<>>

NoMemory == NoMain /\ NoSentence

\* the process has ended: its memory is gone
Forget ==
  /\ in_df' = <<>>
  /\ overwrite' = FALSE
  /\ checkpoint_every' = 1
  /\ start' = 0
  /\ end_limit' = 0
  /\ out_df' = <<>>
  /\ done_mask' = <<>>
  /\ i' = 1
  /\ processed_since_ckpt' = 0
  /\ any_changes' = FALSE
  /\ sents' = <<>>
  /\ out' = <<>>
  /\ text' = <<>>
  /\ repls' = <<>>
  /\ attempt' = 0
  /\ translated' = <<>>
  /\ err' = <<>>
  /\ caller' = "none"
  /\ loaded' = <<>>
  /\ touched' = {}
  /\ called' = {}
  /\ calls' = 0
  /\ slept' = <<>>
  /\ start_file' = NoFile
  /\ start_log' = <<>>
  /\ rerun' = FALSE

Init ==
  /\ run = 0
  /\ pc = "idle"
  /\ flaky = FALSE
  /\ corpus \in [Ids -> Texts]
  /\ max_retries = DefaultMaxRetries
  /\ out_file = NoFile
  /\ tmp_file = NoFile
  /\ progress_log = <<>>
  /\ NoMemory

\* ------------------------------------------------------------------------
\* main, up to the loop (lines 198-217)
\* ------------------------------------------------------------------------
\* One invocation: --input file, --overwrite ow, --checkpoint-every n,
\* --start-idx s, --max-rows m when has_max.
StartRun(file, ow, n, s, has_max, m) ==
  /\ pc \in Stopped
  /\ run < MaxRuns
  /\ ~load_input_exits(file)
  /\ LET input_df == load_input(file)
         df == load_or_init_output(input_df, out_file, ow)
         total == Len(df)
         limit == IF has_max THEN (IF s + m < total THEN s + m ELSE total)
                  ELSE total
     IN /\ in_df' = input_df
        /\ out_df' = df
        /\ loaded' = df
        /\ done_mask' = DoneMask(df, ow)
        /\ start' = s
        /\ end_limit' = limit
        /\ i' = s + 1
        /\ rerun' = /\ pc = "done"
                    /\ input_df = in_df
                    /\ n = checkpoint_every
                    /\ s = 0 /\ limit = total
                    /\ start = 0 /\ end_limit = Len(in_df)
                    /\ ~ow
  /\ run' = run + 1
  /\ overwrite' = ow
  /\ checkpoint_every' = n
  /\ processed_since_ckpt' = 0
  /\ any_changes' = FALSE
  /\ start_file' = out_file
  /\ start_log' = progress_log
  /\ touched' = {}
  /\ called' = {}
  /\ err' = <<>>
  /\ caller' = "none"
  /\ sents' = <<>>
  /\ out' = <<>>
  /\ text' = <<>>
  /\ repls' = <<>>
  /\ attempt' = 0
  /\ translated' = <<>>
  /\ calls' = 0
  /\ slept' = <<>>
  /\ pc' = "loop"
  /\ UNCHANGED <<flaky, corpus, max_retries, files>>

\* the column checked only after an empty output table was written
ConfigError_after_output(file) ==
  /\ pc \in Stopped
  /\ run < MaxRuns
  /\ load_input_exits(file)
  /\ run' = run + 1
  /\ pc' = "config_error"
  /\ out_file' = TableFile(<<>>)
  /\ Forget
  /\ UNCHANGED <<flaky, corpus, max_retries, tmp_file, progress_log>>

\* line 198: load_input raises SystemExit, which no handler catches: the
\* message goes to stderr and the process exits with status 1
ConfigError(file) ==
  /\ pc \in Stopped
  /\ run < MaxRuns
  /\ load_input_exits(file)
  /\ run' = run + 1
  /\ pc' = "config_error"
  /\ Forget
  /\ UNCHANGED <<flaky, corpus, max_retries, files>>

\* ------------------------------------------------------------------------
\* main, the per-article loop (lines 220-252)
\* ------------------------------------------------------------------------
Skipped(k) == ~overwrite /\ done_mask[k]

\* the for statement is exhausted
LoopEnd ==
  /\ pc = "loop"
  /\ i > end_limit
  /\ pc' = "final"
  /\ UNCHANGED <<world, files, args, out_df, done_mask, i,
                 processed_since_ckpt, any_changes, article, retry,
                 err, caller, history, touched, called>>

\* lines 224-226: continue
Skip ==
  /\ pc = "loop"
  /\ i <= end_limit
  /\ Skipped(i)
  /\ i' = i + 1
  /\ UNCHANGED <<world, pc, files, args, out_df, done_mask,
                 processed_since_ckpt, any_changes, article, retry,
                 err, caller, history, touched, called>>

\* lines 228-231: a blank source text
VisitBlank ==
  /\ pc = "loop"
  /\ i <= end_limit
  /\ ~Skipped(i)
  /\ IsBlankText(out_df[i].text)
  /\ out_df' = [out_df EXCEPT ![i].en = <<>>, ![i].status = StatusEmpty]
  /\ touched' = touched \cup {i}
  /\ pc' = "empty_log"
  /\ UNCHANGED <<world, files, args, done_mask, i,
                 processed_since_ckpt, any_changes, article, retry,
                 err, caller, history, called>>

\* lines 234-236 and 120-121: enter translate_article_text
VisitText ==
  /\ pc = "loop"
  /\ i <= end_limit
  /\ ~Skipped(i)
  /\ ~IsBlankText(out_df[i].text)
  /\ sents' = split_sentences(str(out_df[i].text))
  /\ out' = <<>>
  /\ pc' = "translate"
  /\ UNCHANGED <<world, files, args, out_df, done_mask, i,
                 processed_since_ckpt, any_changes, retry, err,
                 caller, history, touched, called>>

\* lines 122-123, 109-112: the next sentence enters translate_sentence and
\* translate_text_with_retry
NextSentence ==
  /\ pc = "translate"
  /\ sents # <<>>
  /\ sents' = Tail(sents)
  /\ IF strip(Head(sents)) = <<>>
       THEN /\ out' = Append(out, Head(sents))
            /\ UNCHANGED <<pc, retry>>
       ELSE LET p == protect_urls(Head(sents))
            IN /\ text' = p.masked
               /\ repls' = p.repls
               /\ attempt' = 0
               /\ calls' = 0
               /\ slept' = <<>>
               /\ pc' = "call"
               /\ UNCHANGED <<out, translated>>
  /\ UNCHANGED <<world, files, args, out_df, done_mask, i,
                 processed_since_ckpt, any_changes, err, caller,
                 history, touched, called>>

\* line 101: the call returns
RemoteReturns ==
  /\ pc = "call"
  /\ ~remote_raises(text)
  /\ translated' = remote_text(text)
  /\ calls' = calls + 1
  /\ called' = called \cup {i}
  /\ pc' = "restore"
  /\ UNCHANGED <<world, files, args, out_df, done_mask, i,
                 processed_since_ckpt, any_changes, article, text, repls,
                 attempt, slept, err, caller, history, touched>>

\* one retry too many
give_up_late(a, m) == a > m + 1

\* line 104: if attempt > max_retries
give_up(a, m) == a > m

\* lines 101-105: the call raises; give up after max_retries retries
RemoteRaises ==
  /\ pc = "call"
  /\ flaky \/ remote_raises(text)
  /\ calls' = calls + 1
  /\ called' = called \cup {i}
  /\ attempt' = attempt + 1
  /\ IF give_up(attempt + 1, max_retries)
       THEN /\ translated' = text
            /\ pc' = "restore"
       ELSE /\ pc' = "sleep"
            /\ UNCHANGED translated
  /\ UNCHANGED <<world, files, args, out_df, done_mask, i,
                 processed_since_ckpt, any_changes, article, text, repls,
                 slept, err, caller, history, touched>>

\* a wait that grows by base_sleep at each retry
sleep_time_linear(a) == BaseSleepMs * a

\* line 106: base_sleep * (2 ** (attempt - 1))
sleep_time(a) == BaseSleepMs * 2 ^ (a - 1)

\* line 106: time.sleep(base_sleep * 2 ** (attempt - 1)) is over
Backoff ==
  /\ pc = "sleep"
  /\ slept' = Append(slept, sleep_time(attempt))
  /\ pc' = "call"
  /\ UNCHANGED <<world, files, args, out_df, done_mask, i,
                 processed_since_ckpt, any_changes, article, text, repls,
                 attempt, translated, calls, err, caller, history, touched,
                 called>>

\* lines 113, 124: restore_urls and out.append
Restore ==
  /\ pc = "restore"
  /\ IF restore_urls_raises(translated, repls)
       THEN /\ err' = ExcAttribute
            /\ pc' = "except"
            /\ UNCHANGED out
       ELSE /\ out' = Append(out, IF translated = None THEN None
                                 ELSE restore_urls(translated, repls))
            /\ pc' = "translate"
            /\ UNCHANGED err
  /\ UNCHANGED <<world, files, args, out_df, done_mask, i,
                 processed_since_ckpt, any_changes, sents, retry,
                 caller, history, touched, called>>

\* lines 127, 237-238: the join, then the two writes of the ok branch
ArticleTranslated ==
  /\ pc = "translate"
  /\ sents = <<>>
  /\ IF \E k \in DOMAIN out : out[k] = None
       THEN /\ err' = ExcJoin(CHOOSE k \in DOMAIN out :
                                /\ out[k] = None
                                /\ \A j \in 1..(k - 1) : out[j] # None)
            /\ pc' = "except"
            /\ UNCHANGED <<out_df, touched>>
       ELSE /\ out_df' = [out_df EXCEPT ![i].en = join(out),
                                        ![i].status = StatusOk]
            /\ touched' = touched \cup {i}
            /\ pc' = "ok_log"
            /\ UNCHANGED err
  /\ UNCHANGED <<world, files, args, done_mask, i,
                 processed_since_ckpt, any_changes, article, retry,
                 caller, history, called>>

\* lines 241-244: except Exception as e
Except ==
  /\ pc = "except"
  /\ out_df' = [out_df EXCEPT ![i].en = str(out_df[i].text),
                               ![i].status = StatusError(err)]
  /\ touched' = touched \cup {i}
  /\ pc' = "err_log"
  /\ UNCHANGED <<world, files, args, done_mask, i,
                 processed_since_ckpt, any_changes, article, retry,
                 err, caller, history, called>>

\* the line of the progress log the branch at pc writes
LogLine ==
  [id |-> out_df[i].id,
   outcome |-> CASE pc = "empty_log" -> <<"empty">>
                 [] pc = "ok_log" -> <<"ok">>
                 [] OTHER -> <<"error ">> \o err]

\* lines 232-233, 239-240, 245: append_progress writes its line
AppendProgress ==
  /\ pc \in {"empty_log", "ok_log", "err_log"}
  /\ progress_log' = Append(progress_log, LogLine)
  /\ any_changes' = IF pc = "err_log" THEN any_changes ELSE TRUE
  /\ pc' = "count"
  /\ UNCHANGED <<world, out_file, tmp_file, args, out_df, done_mask, i,
                 processed_since_ckpt, article, retry, err,
                 caller, history, touched, called>>

\* append_progress raises OSError inside the try (line 239): it reaches the
\* except clause
AppendProgressCaught ==
  /\ pc = "ok_log"
  /\ err' = ExcLog
  /\ pc' = "except"
  /\ UNCHANGED <<world, files, args, out_df, done_mask, i,
                 processed_since_ckpt, any_changes, article, retry,
                 caller, history, touched, called>>

\* append_progress raises OSError at line 232 or 245: nothing catches it,
\* main ends with a traceback and status 1
AppendProgressUncaught ==
  /\ pc \in {"empty_log", "err_log"}
  /\ pc' = "crashed"
  /\ Forget
  /\ UNCHANGED <<world, files>>

\* the save asked for one article late
Count_late ==
  /\ pc = "count"
  /\ processed_since_ckpt' = processed_since_ckpt + 1
  /\ IF processed_since_ckpt + 1 > checkpoint_every
       THEN /\ pc' = "wcs_open"
            /\ caller' = "loop"
            /\ UNCHANGED i
       ELSE /\ pc' = "loop"
            /\ i' = i + 1
            /\ UNCHANGED caller
  /\ UNCHANGED <<world, files, args, out_df, done_mask, any_changes,
                 article, retry, err, history, touched, called>>

\* lines 247-249
Count ==
  /\ pc = "count"
  /\ processed_since_ckpt' = processed_since_ckpt + 1
  /\ IF processed_since_ckpt + 1 >= checkpoint_every
       THEN /\ pc' = "wcs_open"
            /\ caller' = "loop"
            /\ UNCHANGED i
       ELSE /\ pc' = "loop"
            /\ i' = i + 1
            /\ UNCHANGED caller
  /\ UNCHANGED <<world, files, args, out_df, done_mask, any_changes,
                 article, retry, err, history, touched, called>>

\* ------------------------------------------------------------------------
\* write_checkpoint_safely (lines 176-179)
\* ------------------------------------------------------------------------
\* the table written straight to the output path
OpenTmp_in_place ==
  /\ pc = "wcs_open"
  /\ out_file' = Partial
  /\ pc' = "wcs_write"
  /\ UNCHANGED <<world, tmp_file, progress_log, args, out_df, done_mask,
                 i, processed_since_ckpt, any_changes, article, retry,
                 err, caller, history, touched, called>>

\* df.to_csv(tmp) has opened tmp and not yet written all of it
OpenTmp ==
  /\ pc = "wcs_open"
  /\ tmp_file' = Partial
  /\ pc' = "wcs_write"
  /\ UNCHANGED <<world, out_file, progress_log, args, out_df, done_mask,
                 i, processed_since_ckpt, any_changes, article, retry,
                 err, caller, history, touched, called>>

\* df.to_csv(tmp) is complete
WriteTmp ==
  /\ pc = "wcs_write"
  /\ tmp_file' = TableFile(to_csv(out_df))
  /\ pc' = "wcs_replace"
  /\ UNCHANGED <<world, out_file, progress_log, args, out_df, done_mask,
                 i, processed_since_ckpt, any_changes, article, retry,
                 err, caller, history, touched, called>>

\* os.replace(tmp, out_path), then back in main: lines 251-252 after a
\* periodic save, line 257 after the final one
ReplaceOut ==
  /\ pc = "wcs_replace"
  /\ out_file' = tmp_file
  /\ tmp_file' = NoFile
  /\ IF caller = "loop"
       THEN /\ processed_since_ckpt' = 0
            /\ any_changes' = FALSE
            /\ i' = i + 1
            /\ pc' = "loop"
       ELSE /\ pc' = "done"
            /\ UNCHANGED <<processed_since_ckpt, any_changes, i>>
  /\ caller' = "none"
  /\ UNCHANGED <<world, progress_log, args, out_df, done_mask, article,
                 retry, err, history, touched, called>>

\* ------------------------------------------------------------------------
\* main, after the loop (lines 254-258), and the ways a process stops
\* ------------------------------------------------------------------------
FinalSave ==
  /\ pc = "final"
  /\ IF any_changes \/ out_file = NoFile
       THEN /\ pc' = "wcs_open"
            /\ caller' = "final"
       ELSE /\ pc' = "done"
            /\ UNCHANGED caller
  /\ UNCHANGED <<world, files, args, out_df, done_mask, i,
                 processed_since_ckpt, any_changes, article, retry,
                 err, history, touched, called>>

\* lines 261-265: KeyboardInterrupt reaches the handler around main(), which
\* prints and exits with status 130; the memory of the process is gone
Interrupt ==
  /\ pc \notin Stopped
  /\ pc' = "interrupted"
  /\ Forget
  /\ UNCHANGED <<world, files>>

\* the process is killed
Kill ==
  /\ pc \notin Stopped
  /\ pc' = "killed"
  /\ Forget
  /\ UNCHANGED <<world, files>>

\* the program is invoked with some arguments
Invoke ==
  \E file \in InputFiles(corpus), ow \in BOOLEAN,
     n \in 1..MaxCheckpointEvery, s \in 0..MaxStartIdx,
     lim \in {<<FALSE, 0>>} \cup ({TRUE} \X (1..MaxMaxRows)) :
    StartRun(file, ow, n, s, lim[1], lim[2])

\* the program is invoked on an input without the ArticleText column
InvokeNoText == \E file \in NoTextFiles : ConfigError(file)

Next ==
  \/ Invoke
  \/ InvokeNoText
  \/ LoopEnd
  \/ Skip
  \/ VisitBlank
  \/ VisitText
  \/ NextSentence
  \/ RemoteReturns
  \/ RemoteRaises
  \/ Backoff
  \/ Restore
  \/ ArticleTranslated
  \/ Except
  \/ AppendProgress
  \/ AppendProgressCaught
  \/ AppendProgressUncaught
  \/ Count
  \/ OpenTmp
  \/ WriteTmp
  \/ ReplaceOut
  \/ FinalSave
  \/ Interrupt
  \/ Kill

Spec == Init /\ [][Next]_vars

\* ------------------------------------------------------------------------
\* translate_sentence alone, against a capability that may fail at any call
\* ------------------------------------------------------------------------
Sentences ==
  { <<"a", ".">>, <<"n", ".">>, <<"x", ".">>,
    <<"a", " ", "b", ".", "r", "u">>,
    <<"w", "w", "w", ".">> \o Placeholder(1) \o <<" ", "b", ".", "r", "u">> }

InitSentence ==
  /\ run = 0
  /\ pc = "translate"
  /\ flaky = TRUE
  /\ corpus = [id \in Ids |-> TextBlank]
  /\ max_retries \in 0..MaxRetriesArg
  /\ out_file = NoFile
  /\ tmp_file = NoFile
  /\ progress_log = <<>>
  /\ in_df = <<>>
  /\ overwrite = FALSE
  /\ checkpoint_every = 1
  /\ start = 0
  /\ end_limit = 0
  /\ out_df = <<>>
  /\ done_mask = <<>>
  /\ i = 1
  /\ processed_since_ckpt = 0
  /\ any_changes = FALSE
  /\ sents \in {<<s>> : s \in Sentences}
  /\ out = <<>>
  /\ err = <<>>
  /\ caller = "none"
  /\ loaded = <<>>
  /\ touched = {}
  /\ called = {}
  /\ start_file = NoFile
  /\ start_log = <<>>
  /\ rerun = FALSE
  /\ NoSentence

NextSentenceOnly ==
  \/ NextSentence
  \/ RemoteReturns
  \/ RemoteRaises
  \/ Backoff
  \/ Restore

SpecSentence == InitSentence /\ [][NextSentenceOnly]_vars

\* ------------------------------------------------------------------------
\* The same invocation, twice: one input table, the whole of it, no
\* interruption, a log that can be written
\* ------------------------------------------------------------------------
RerunIds == {DecStr(k) : k \in 0..(MaxRerunArticles - 1)}

RerunFile(c) ==
  [has_id |-> TRUE,
   has_text |-> TRUE,
   rows |-> [k \in 1..MaxRerunArticles |->
               [id |-> DecStr(k - 1), text |-> c[DecStr(k - 1)]]]]

InitRerun ==
  /\ run = 0
  /\ pc = "idle"
  /\ flaky = FALSE
  /\ corpus \in [RerunIds -> Texts]
  /\ max_retries = DefaultMaxRetries
  /\ out_file = NoFile
  /\ tmp_file = NoFile
  /\ progress_log = <<>>
  /\ NoMemory

InvokeWhole ==
  \E ow \in BOOLEAN, n \in 1..MaxCheckpointEvery :
    StartRun(RerunFile(corpus), ow, n, 0, FALSE, 0)

NextRerun ==
  \/ InvokeWhole
  \/ LoopEnd
  \/ Skip
  \/ VisitBlank
  \/ VisitText
  \/ NextSentence
  \/ RemoteReturns
  \/ RemoteRaises
  \/ Backoff
  \/ Restore
  \/ ArticleTranslated
  \/ Except
  \/ AppendProgress
  \/ Count
  \/ OpenTmp
  \/ WriteTmp
  \/ ReplaceOut
  \/ FinalSave

SpecRerun == InitRerun /\ [][NextRerun]_vars

\* ------------------------------------------------------------------------
\* One invocation, whatever file is at --output when it starts: none, a
\* readable table, or one that read_csv or reindex raises on
\* ------------------------------------------------------------------------
PriorIdLists == UNION { [1..n -> Ids] : n \in 0..MaxArticles }

\* the cells of a row of a table found at --output: as an earlier run left
\* a translated article, or a pending one
PriorCells ==
  { [text |-> TextGood, en |-> <<"A", ".">>, status |-> StatusOk],
    [text |-> TextBlank, en |-> <<>>, status |-> StatusUnset] }

\* A file cut short stands for every file read_csv raises on; a table that
\* lists an id twice is read, and reindex raises on it.
PriorFiles ==
  {NoFile, Partial} \cup
  { TableFile([k \in DOMAIN l |->
                 [id |-> l[k], text |-> e.text, en |-> e.en,
                  status |-> e.status]]) :
      l \in PriorIdLists, e \in PriorCells }

InitPrior ==
  /\ run = 0
  /\ pc = "idle"
  /\ flaky = FALSE
  /\ corpus \in [Ids -> Texts \cup {TextSoftUrl}]
  /\ max_retries = DefaultMaxRetries
  /\ out_file \in PriorFiles
  /\ tmp_file = NoFile
  /\ progress_log = <<>>
  /\ NoMemory

InvokeOnce ==
  /\ pc = "idle"
  /\ \E file \in InputFiles(corpus), ow \in BOOLEAN,
        n \in 1..MaxCheckpointEvery :
       StartRun(file, ow, n, 0, FALSE, 0)

InvokeNoTextOnce ==
  /\ pc = "idle"
  /\ InvokeNoText

NextPrior ==
  \/ InvokeOnce
  \/ InvokeNoTextOnce
  \/ LoopEnd
  \/ Skip
  \/ VisitBlank
  \/ VisitText
  \/ NextSentence
  \/ RemoteReturns
  \/ RemoteRaises
  \/ Backoff
  \/ Restore
  \/ ArticleTranslated
  \/ Except
  \/ AppendProgress
  \/ AppendProgressCaught
  \/ AppendProgressUncaught
  \/ Count
  \/ OpenTmp
  \/ WriteTmp
  \/ ReplaceOut
  \/ FinalSave
  \/ Interrupt
  \/ Kill

SpecPrior == InitPrior /\ [][NextPrior]_vars

\* ------------------------------------------------------------------------
\* Properties
\* ------------------------------------------------------------------------
\* row k of the JobState df is in the file, as to_csv writes it
RowIn(file, df, k) ==
  /\ file.kind = "table"
  /\ k \in DOMAIN file.rows
  /\ file.rows[k].id = df[k].id
  /\ file.rows[k].en = to_csv(df)[k].en
  /\ file.rows[k].status = to_csv(df)[k].status

\* a cell that is missing, empty or whitespace-only
Blank(v) == v = NaN \/ v = <<>> \/ \A k \in DOMAIN v : v[k] \in WS

\* a status a run has given: ok, empty or error: <detail>
Settled(status) ==
  \/ status \in {StatusOk, StatusEmpty}
  \/ status # <<>> /\ status[1] = "error: "

\* the process is inside the loop body for row i
InBody ==
  pc \in {"empty_log", "translate", "call", "sleep", "restore", "ok_log",
          "except", "err_log", "count", "wcs_open", "wcs_write",
          "wcs_replace"} /\ caller # "final"

\* C1: when a run is interrupted, the checkpoint on disk at exit holds the
\* translatedText and status of every article the run has processed.
C1_InterruptFlushes ==
  [][pc' = "interrupted" => \A k \in touched : RowIn(out_file', out_df, k)]_vars

\* C2: a run over the whole input, completed, then the same invocation again
\* without overwrite: the second run leaves the output table as the first
\* left it.
C2_RerunIdempotent ==
  (pc = "done" /\ rerun) => out_file = start_file

\* C3 as stated: without overwrite, an article whose checkpointed status is
\* ok, empty or error is skipped: the run writes nothing to it.
C3_SettledSkipped ==
  \A k \in touched : ~(~overwrite /\ Settled(loaded[k].status))

\* C3 as amended: without overwrite, an article whose translatedText in the
\* JobState as built is non-blank is skipped: the run never enters the loop
\* body for it, calls the capability for it, or writes its outputs.
C3_TranslatedSkipped ==
  /\ \A k \in DOMAIN loaded :
       (~overwrite /\ ~Blank(str(loaded[k].en))) =>
         /\ k \notin touched
         /\ k \notin called
         /\ out_df[k] = loaded[k]
  /\ InBody => ~(~overwrite /\ ~Blank(str(loaded[i].en)))

\* a resumed run has passed over a row the checkpoint holds as ok
C3_Witness ==
  /\ pc = "final"
  /\ ~overwrite
  /\ \E k \in (start + 1)..end_limit :
       /\ loaded[k].status = StatusOk
       /\ ~Blank(loaded[k].en)
       /\ k \notin touched

\* C4: translate_text_with_retry calls the capability at most
\* max_retries + 1 times; when every call failed it returns its text; when a
\* call succeeded it returns that call's reply and calls no more.
C4_RetryBound ==
  /\ calls <= max_retries + 1
  /\ pc = "restore" =>
       /\ ~ENABLED (RemoteReturns \/ RemoteRaises)
       /\ IF attempt > max_retries
            THEN translated = text /\ calls = max_retries + 1
            ELSE translated = remote_text(text) /\ calls = attempt + 1

\* every call failed and the text came back
C4_Witness ==
  /\ pc = "restore"
  /\ max_retries >= 2
  /\ calls = max_retries + 1
  /\ attempt > max_retries
  /\ translated = text

\* C5: the file at the output path is never a partly written table, and it
\* changes only when os.replace puts a completely written snapshot of the
\* JobState in its place; a crash inside write_checkpoint_safely leaves it
\* as it was.
C5_CheckpointAtomic ==
  /\ [](out_file.kind \in {"none", "table"})
  /\ [][out_file' # out_file =>
          /\ pc = "wcs_replace"
          /\ tmp_file = TableFile(to_csv(out_df))
          /\ out_file' = tmp_file]_vars

\* the process died inside a save, and the earlier checkpoint is there
C5_Witness ==
  /\ pc \in {"interrupted", "killed"}
  /\ tmp_file.kind = "partial"
  /\ out_file.kind = "table"
  /\ out_file.rows # <<>>

\* C6: the JobState, and every table a run saves, lists exactly the ids of
\* the run's input table, in the input's order, whatever ids the prior
\* checkpoint held.
C6_InputOrder ==
  pc \notin (Stopped \ {"done"}) =>
    /\ IdsOf(out_df) = IdsOf(in_df)
    /\ pc = "wcs_replace" => IdsOf(tmp_file.rows) = IdsOf(in_df)
    /\ out_file # start_file => IdsOf(out_file.rows) = IdsOf(in_df)

\* a run has saved over a checkpoint that held other ids, or another order
C6_Witness ==
  /\ pc = "done"
  /\ start_file.kind = "table"
  /\ Len(start_file.rows) = 2
  /\ Len(in_df) = 2
  /\ IdsOf(start_file.rows) # IdsOf(in_df)
  /\ out_file # start_file

\* C7: at normal completion every article the run has given a state is in
\* the checkpoint on disk: a final save has followed the last change.
C7_FinalSave ==
  pc = "done" => \A k \in touched : RowIn(out_file, out_df, k)

\* C8: a visited, not skipped article whose source text is missing, empty
\* or whitespace-only has translatedText "" and status empty, and the
\* capability was not called for it.
C8_BlankIsEmpty ==
  \A k \in DOMAIN out_df :
    ( /\ Blank(out_df[k].text)
      /\ ~(~overwrite /\ ~Blank(str(loaded[k].en)))
      /\ \/ k \in touched
         \/ k > start /\ k < i
         \/ k = i /\ pc # "loop" /\ k <= end_limit )
    => /\ out_df[k].en = <<>>
       /\ out_df[k].status = StatusEmpty
       /\ k \in touched
       /\ k \notin called

\* a whitespace-only article has been processed
C8_Witness ==
  /\ pc = "count"
  /\ out_df[i].text = TextBlank
  /\ out_df[i].status = StatusEmpty

\* C9: once an exception has escaped the translation of an article and the
\* except clause has set its outputs, the run goes on to count the article
\* and to the next one; only an interrupt or a kill stops it there.
C9_FailureContinues ==
  [][(pc = "err_log" /\ err # ExcLog) =>
       /\ out_df[i].en = str(out_df[i].text)
       /\ out_df[i].status = StatusError(err)
       /\ pc' \in {"count", "interrupted", "killed"}]_vars

\* C10: a progress log that cannot be written stops no run and changes no
\* article's outputs.
C10_LogFailureHarmless ==
  /\ pc # "crashed"
  /\ \A k \in DOMAIN out_df : out_df[k].status # StatusError(ExcLog)

\* the entry the protocol wants in the log for row k of a run: its id, and
\* skip when the run wrote nothing to the row, else the status it was given
LogEntryFor(k) ==
  [id |-> out_df[k].id,
   outcome |-> IF k \in touched THEN out_df[k].status ELSE <<"skip">>]

\* C11: between articles and at the end of a run, the progress log holds,
\* after the lines it held when the run started, exactly one entry per
\* article visited so far, in visiting order, with the outcome ok, empty,
\* error: <detail> or skip of that article; and no step of any run rewrites
\* or removes a line.
C11_LogProtocol ==
  /\ [](pc \in {"loop", "final", "done"} =>
         /\ Len(progress_log) = Len(start_log) + (i - 1 - start)
         /\ \A j \in 1..(i - 1 - start) :
              progress_log[Len(start_log) + j] = LogEntryFor(start + j))
  /\ [][/\ Len(progress_log') >= Len(progress_log)
        /\ SubSeq(progress_log', 1, Len(progress_log)) = progress_log]_vars

\* the rows this run has processed whose result is not in the file on disk
Unsaved == {k \in touched : ~RowIn(out_file, out_df, k)}

\* C12: between articles fewer than checkpoint_every processed articles are
\* missing from the checkpoint on disk; unless the process is stopped there,
\* the step that counts the N-th processed article since the last save goes
\* straight to a save; a skipped article does not advance the counter.
C12_CheckpointBound ==
  /\ [](pc = "loop" =>
         /\ Cardinality(Unsaved) < checkpoint_every
         /\ Cardinality(Unsaved) <= processed_since_ckpt
         /\ processed_since_ckpt < checkpoint_every)
  /\ [][pc' \notin Stopped =>
          /\ (pc = "count" /\ processed_since_ckpt + 1 >= checkpoint_every)
               => pc' = "wcs_open"
          /\ (pc = "count" /\ processed_since_ckpt + 1 < checkpoint_every)
               => /\ pc' = "loop"
                  /\ processed_since_ckpt' = processed_since_ckpt + 1
          /\ (pc = "loop" /\ pc' = "loop")
               => processed_since_ckpt' = processed_since_ckpt]_vars

\* a resumed run has skipped a row and processed another, which no save has
\* followed yet
C12_Witness ==
  /\ pc = "loop"
  /\ checkpoint_every = 2
  /\ processed_since_ckpt = 1
  /\ Cardinality(Unsaved) = 1
  /\ out_file.kind = "table"
  /\ \E k \in (start + 1)..(i - 1) : k \notin touched

\* the positions a run with its start offset and row limit visits
ChunkRange == (start + 1)..end_limit

\* C13: a run writes only to the positions of its chunk, and every position
\* outside the chunk keeps, in the JobState and in every table the run
\* saves, the translatedText and status the prior checkpoint held for its
\* id, with or without overwrite.
C13_ChunkFrame ==
  pc \notin (Stopped \ {"done"}) =>
    /\ touched \subseteq ChunkRange
    /\ \A k \in DOMAIN out_df \ ChunkRange :
         \A j \in DOMAIN start_file.rows :
           start_file.rows[j].id = out_df[k].id =>
             /\ out_df[k].en = start_file.rows[j].en
             /\ out_df[k].status = start_file.rows[j].status
             /\ out_file # start_file =>
                  /\ out_file.rows[k].en = start_file.rows[j].en
                  /\ out_file.rows[k].status = start_file.rows[j].status

\* a file that cannot be read, or that cannot be merged: it lists an id twice
Corrupt(file) ==
  \/ file.kind = "partial"
  \/ /\ file.kind = "table"
     /\ \E j, k \in DOMAIN file.rows :
          j # k /\ file.rows[j].id = file.rows[k].id

C15_ConfigAbort ==
  [][pc' = "config_error" =>
       /\ pc \in Stopped
       /\ run' = run + 1
       /\ out_file' = out_file
       /\ tmp_file' = tmp_file
       /\ progress_log' = progress_log
       /\ touched' = {}
       /\ called' = {}]_vars

\* a run has ended on the missing column, over a checkpoint that holds rows
C15_Witness ==
  /\ pc = "config_error"
  /\ run = 1
  /\ out_file.kind = "table"
  /\ out_file.rows # <<>>
  /\ tmp_file = NoFile
  /\ progress_log = <<>>

\* C16: a process that has ended has status 0 exactly when its loop ran to
\* the end and the final save step completed; it gets status 0 by no other
\* step; a run ended by an interrupt or by the missing column has a status
\* other than 0.
C16_ExitStatus ==
  /\ [](pc \in Stopped \ {"idle"} => (ExitStatus = 0 <=> pc = "done"))
  /\ [](pc \in {"interrupted", "config_error"} => ExitStatus > 0)
  /\ [](pc \notin Stopped => ExitStatus = -1)
  /\ [][(ExitStatus' = 0 /\ ExitStatus # 0) =>
          /\ i > end_limit
          /\ \/ pc = "final" /\ ~(any_changes \/ out_file = NoFile)
             \/ pc = "wcs_replace" /\ caller = "final"]_vars

\* a run was interrupted after it had logged an article
C16_Witness ==
  /\ pc = "interrupted"
  /\ ExitStatus = 130
  /\ progress_log # <<>>

\* w is a substring of s
Contains(s, w) ==
  \E p \in 1..(Len(s) - Len(w) + 1) :
    \A k \in 1..Len(w) : s[p + k - 1] = w[k]

\* C17: when translate_sentence has returned for a sentence the capability
\* answered with a string (placeholders passed through), the result holds
\* every URL matched in the sentence as a substring, holds no placeholder
\* the sentence did not hold, and for a sentence without URL is exactly
\* what translate_text_with_retry returned.
C17_UrlRoundTrip ==
  (pc = "translate" /\ out # <<>> /\ calls > 0 /\ translated # None) =>
    LET res == out[Len(out)]
    IN /\ \A k \in DOMAIN repls : Contains(res, repls[k][2])
       /\ repls = <<>> => res = translated
       /\ \A s \in Sentences :
            (protect_urls(s).masked = text /\ protect_urls(s).repls = repls)
              => \A idx \in 0..2 :
                   Contains(res, Placeholder(idx)) => Contains(s, Placeholder(idx))

\* C18: the waits of translate_text_with_retry are 500 ms * 2^(k-1) after
\* the k-th failed call, one between each failed call and the next call:
\* none before the first call, none after the failed call that ends the
\* retries, none after a call that returned.
C18_BackoffSchedule ==
  /\ \A k \in DOMAIN slept : slept[k] = 500 * 2 ^ (k - 1)
  /\ pc = "call" => Len(slept) = calls /\ calls <= max_retries
  /\ pc = "sleep" => Len(slept) = calls - 1 /\ calls <= max_retries
  /\ pc = "restore" => Len(slept) = calls - 1

\* three calls failed, three waits followed, and the fourth call ended the
\* retries with no wait after it
C18_Witness ==
  /\ pc = "restore"
  /\ max_retries = 3
  /\ calls = 4
  /\ translated = text
  /\ slept = <<500, 1000, 2000>>

\* the sentences of an article text, each with its URLs masked
MaskedSentences(t) ==
  LET S == split_sentences(str(t))
  IN [j \in DOMAIN S |-> protect_urls(S[j])]

\* a non-blank article with a sentence the capability refuses at every
\* attempt, and a string for a reply to every other sentence
SoftArticle(t) ==
  /\ ~Blank(t)
  /\ \E j \in DOMAIN MaskedSentences(t) :
       remote_raises(MaskedSentences(t)[j].masked)
  /\ \A j \in DOMAIN MaskedSentences(t) :
       \/ remote_raises(MaskedSentences(t)[j].masked)
       \/ remote_text(MaskedSentences(t)[j].masked) # None

\* one result per sentence, in order: the sentence itself when every call
\* for it failed, else its translation with the URLs put back
SoftResults(t) ==
  LET S == split_sentences(str(t))
      M == MaskedSentences(t)
  IN [j \in DOMAIN S |->
        IF remote_raises(M[j].masked) THEN S[j]
        ELSE restore_urls(remote_text(M[j].masked), M[j].repls)]

\* the article at row k has been processed to the end
Processed(k) ==
  /\ k \in touched
  /\ k # i \/ pc \in {"count", "wcs_open", "wcs_write", "wcs_replace",
                       "final", "done"}

\* C19: an article with sentences the capability refuses at every attempt
\* ends with status ok, and its translatedText is the single-space join of
\* one result per sentence, in order, a refused sentence giving its own
\* text.
C19_SoftFailureOk ==
  \A k \in DOMAIN out_df :
    (Processed(k) /\ SoftArticle(out_df[k].text)) =>
      /\ out_df[k].status = StatusOk
      /\ out_df[k].en = join(SoftResults(out_df[k].text))

\* the id of input row k is not in the table the run found at --output
AbsentFromCheckpoint(k) ==
  \A j \in DOMAIN start_file.rows : start_file.rows[j].id # in_df[k].id

\* C20: in a run without overwrite over the whole input, resumed from a
\* readable checkpoint that holds some of the input's ids and no other,
\* every input article whose id the checkpoint does not hold starts with translatedText "" and status unset, and at normal
\* completion has been processed: status empty when its input text is
\* blank, ok or error otherwise.
C20_MissingProcessed ==
  ( /\ pc \notin (Stopped \ {"done"})
    /\ ~overwrite
    /\ start = 0 /\ end_limit = Len(in_df)
    /\ start_file.kind = "table" /\ ~Corrupt(start_file)
    /\ start_file.rows # <<>>
    /\ \A j \in DOMAIN start_file.rows :
         \E k \in DOMAIN in_df : in_df[k].id = start_file.rows[j].id ) =>
    \A k \in DOMAIN in_df :
      AbsentFromCheckpoint(k) =>
        /\ loaded[k].en = <<>>
        /\ loaded[k].status = StatusUnset
        /\ pc = "done" =>
             /\ k \in touched
             /\ IF Blank(in_df[k].text)
                  THEN out_df[k].status = StatusEmpty
                  ELSE \/ out_df[k].status = StatusOk
                       \/ out_df[k].status[1] = "error: "

\* C21: from the moment the JobState is built, whatever file the run found
\* at the output path, and at every later point of the run, the source text
\* of each row of the JobState is the source text the input table gives for
\* that row's id.
C21_SourceTextFromInput ==
  pc \notin (Stopped \ {"done"}) =>
    /\ DOMAIN out_df = DOMAIN in_df
    /\ \A k \in DOMAIN out_df :
         /\ out_df[k].id = in_df[k].id
         /\ out_df[k].text = in_df[k].text
====
